---- MODULE Spec2Model ----
(***************************************************************************)
(* Model of the tool invocation and result-normalisation layer of          *)
(* secops-mcp: src/tools/arjun.py (arjun_wrapper, arjun_bulk_scan,         *)
(* arjun_with_custom_payloads) and src/tools/gospider.py                   *)
(* (gospider_wrapper, gospider_crawl_with_filter).                         *)
(*                                                                         *)
(* A call is a small state machine: the command is built, the subprocess   *)
(* is launched and exits (the environment chooses launch failure, the exit *)
(* status, stdout and stderr), stdout is parsed and the envelope is built. *)
(* Python strings are TLA+ strings, Python lists are sequences, and a      *)
(* value decoded from JSON is a tagged record (JStr, JList, JDict, ...).   *)
(* stdout is held as the sequence of its lines (what splitlines() gives).  *)
(***************************************************************************)
EXTENDS Integers, Sequences, FiniteSets, TLC

VARIABLES
    op,                 \* the operation called ("idle" before the call)
    args,               \* its arguments
    wargs,              \* arguments of the running arjun_wrapper / gospider_wrapper
    wpc,                \* where that wrapper call is: none, build, exec, wait, parse, envelope, done
    cmd,                \* the token sequence built for subprocess.run
    running,            \* number of child processes running
    result,             \* what subprocess.run produced
    parsed,             \* the findings the parser collected
    wenv,               \* the envelope the wrapper returned
    ret,                \* what the operation gave its caller: a return value or a raised exception
    i,                  \* arjun_bulk_scan: index of the next target
    all_results,        \* arjun_bulk_scan: all_results, an insertion-ordered dict
    successful_scans,   \* arjun_bulk_scan: counter
    failed_scans,       \* arjun_bulk_scan: counter
    scanned,            \* history: targets handed to arjun_wrapper by the bulk loop, in order
    hist,               \* history: the envelope arjun_wrapper returned for each of them
    steps               \* history: pipeline steps of the current wrapper call, in order

vars == <<op, args, wargs, wpc, cmd, running, result, parsed, wenv, ret, i,
          all_results, successful_scans, failed_scans, scanned, hist, steps>>

(***************************************************************************)
(* Bounds of the model.                                                    *)
(***************************************************************************)
MaxLines == 2         \* lines of stdout in a single arjun / gospider wrapper call
MaxFilterLines == 3   \* lines of stdout in a gospider_crawl_with_filter call
MaxHeaders == 2       \* elements of a headers list
MaxUrls == 3          \* targets of a bulk scan
MaxCustom == 2        \* elements of custom_params

SeqsUpTo(S, n) == UNION {[1..k -> S] : k \in 0..n}

(***************************************************************************)
(* Python str methods used by the code.                                    *)
(***************************************************************************)
startswith(s, prefix) ==
    Len(s) >= Len(prefix) /\ SubSeq(s, 1, Len(prefix)) = prefix

endswith(s, suffix) ==
    Len(s) >= Len(suffix) /\ SubSeq(s, Len(s) - Len(suffix) + 1, Len(s)) = suffix

\* sub in s, for strings
str_contains(s, sub) ==
    \E k \in 1..(Len(s) + 1) :
        k + Len(sub) - 1 <= Len(s) /\ SubSeq(s, k, k + Len(sub) - 1) = sub

IsSpace(c) == c \in {" ", "\t"}

RECURSIVE lstrip(_)
lstrip(s) ==
    IF s # "" /\ IsSpace(SubSeq(s, 1, 1)) THEN lstrip(SubSeq(s, 2, Len(s))) ELSE s

RECURSIVE rstrip(_)
rstrip(s) ==
    IF s # "" /\ IsSpace(SubSeq(s, Len(s), Len(s)))
    THEN rstrip(SubSeq(s, 1, Len(s) - 1)) ELSE s

strip(s) == rstrip(lstrip(s))

UpperChar(c) ==
    CASE c = "a" -> "A" [] c = "b" -> "B" [] c = "c" -> "C" [] c = "d" -> "D"
      [] c = "e" -> "E" [] c = "f" -> "F" [] c = "g" -> "G" [] c = "h" -> "H"
      [] c = "i" -> "I" [] c = "j" -> "J" [] c = "k" -> "K" [] c = "l" -> "L"
      [] c = "m" -> "M" [] c = "n" -> "N" [] c = "o" -> "O" [] c = "p" -> "P"
      [] c = "q" -> "Q" [] c = "r" -> "R" [] c = "s" -> "S" [] c = "t" -> "T"
      [] c = "u" -> "U" [] c = "v" -> "V" [] c = "w" -> "W" [] c = "x" -> "X"
      [] c = "y" -> "Y" [] c = "z" -> "Z" [] OTHER -> c

RECURSIVE upper(_)
upper(s) ==
    IF s = "" THEN "" ELSE UpperChar(SubSeq(s, 1, 1)) \o upper(SubSeq(s, 2, Len(s)))

\* str(n) for an int
str(n) == ToString(n)

\* Optional[...] arguments: None, or a value.  "if x:" is Truthy(x).
None == [some |-> FALSE, v |-> <<>>]
NoneStr == [some |-> FALSE, v |-> ""]
Some(v) == [some |-> TRUE, v |-> v]
Truthy(x) == x.some /\ Len(x.v) > 0

(***************************************************************************)
(* Values decoded from JSON, and Python values held in findings.           *)
(***************************************************************************)
JNull == [t |-> "null", s |-> "", items |-> <<>>, keys |-> <<>>]
JStr(s) == [t |-> "str", s |-> s, items |-> <<>>, keys |-> <<>>]
JInt(n) == [t |-> "int", s |-> ToString(n), items |-> <<>>, keys |-> <<>>]
JList(xs) == [t |-> "list", s |-> "", items |-> xs, keys |-> <<>>]
\* an object: its keys in order, and the value of each
JDict(ks, vs) == [t |-> "dict", s |-> "", items |-> vs, keys |-> ks]
\* json.loads raised json.JSONDecodeError
JSONDecodeError == [t |-> "JSONDecodeError", s |-> "", items |-> <<>>, keys |-> <<>>]

HasKey(d, k) == \E n \in 1..Len(d.keys) : d.keys[n] = k

\* d[k] for a dict that has k
Item(d, k) == d.items[CHOOSE n \in 1..Len(d.keys) : d.keys[n] = k]

\* dict.get(k): the value, or None
Get(d, k) == IF HasKey(d, k) THEN Item(d, k) ELSE JNull

\* the characters of a str, as iterating over it gives them
Chars(s) == [n \in 1..Len(s) |-> JStr(SubSeq(s, n, n))]

(***************************************************************************)
(* Lines a tool may print, and what json.loads makes of each.              *)
(***************************************************************************)
ArjunLines ==
    { "{\"parameters\": [\"id\", \"q\"]}",
      "{\"url\": \"http://t/a\"}",
      "[\"debug\", \"page\"]",
      "[\"parameters\"]",
      "\"token\"",
      "\"no parameters\"",
      "42",
      "[*] Scanning",
      " id ",
      "  " }

GospiderLines ==
    { "{\"type\":\"url\",\"output\":\"/a.js\",\"source\":\"body\",\"tag\":\"script\",\"status_code\":200}",
      "{\"type\":\"url\",\"output\":\"/b.php\",\"source\":\"body\",\"tag\":\"a\",\"status_code\":200}",
      "{\"type\":\"url\",\"output\":\"/c.png\",\"source\":\"body\",\"tag\":\"img\",\"status_code\":404}",
      "{\"type\":\"url\",\"source\":\"body\"}",
      "{\"type\":\"form\",\"output\":\"/login.php\",\"source\":\"body\",\"tag\":\"form\"}",
      "{\"type\":\"secret\",\"output\":\"AKIA1\",\"source\":\"/a.js\",\"tag\":\"aws\"}",
      "{\"type\":\"linkfinder\",\"output\":\"/d.php\"}",
      "[\"/e.php\"]",
      "http://t/f.php ",
      "" }

json_loads(line) ==
    CASE line = "{\"parameters\": [\"id\", \"q\"]}" ->
            JDict(<<"parameters">>, <<JList(<<JStr("id"), JStr("q")>>)>>)
      [] line = "{\"url\": \"http://t/a\"}" ->
            JDict(<<"url">>, <<JStr("http://t/a")>>)
      [] line = "[\"debug\", \"page\"]" -> JList(<<JStr("debug"), JStr("page")>>)
      [] line = "[\"parameters\"]" -> JList(<<JStr("parameters")>>)
      [] line = "\"token\"" -> JStr("token")
      [] line = "\"no parameters\"" -> JStr("no parameters")
      [] line = "42" -> JInt(42)
      [] line = "{\"type\":\"url\",\"output\":\"/a.js\",\"source\":\"body\",\"tag\":\"script\",\"status_code\":200}" ->
            JDict(<<"type", "output", "source", "tag", "status_code">>,
                  <<JStr("url"), JStr("/a.js"), JStr("body"), JStr("script"), JInt(200)>>)
      [] line = "{\"type\":\"url\",\"output\":\"/b.php\",\"source\":\"body\",\"tag\":\"a\",\"status_code\":200}" ->
            JDict(<<"type", "output", "source", "tag", "status_code">>,
                  <<JStr("url"), JStr("/b.php"), JStr("body"), JStr("a"), JInt(200)>>)
      [] line = "{\"type\":\"url\",\"output\":\"/c.png\",\"source\":\"body\",\"tag\":\"img\",\"status_code\":404}" ->
            JDict(<<"type", "output", "source", "tag", "status_code">>,
                  <<JStr("url"), JStr("/c.png"), JStr("body"), JStr("img"), JInt(404)>>)
      [] line = "{\"type\":\"url\",\"source\":\"body\"}" ->
            JDict(<<"type", "source">>, <<JStr("url"), JStr("body")>>)
      [] line = "{\"type\":\"form\",\"output\":\"/login.php\",\"source\":\"body\",\"tag\":\"form\"}" ->
            JDict(<<"type", "output", "source", "tag">>,
                  <<JStr("form"), JStr("/login.php"), JStr("body"), JStr("form")>>)
      [] line = "{\"type\":\"secret\",\"output\":\"AKIA1\",\"source\":\"/a.js\",\"tag\":\"aws\"}" ->
            JDict(<<"type", "output", "source", "tag">>,
                  <<JStr("secret"), JStr("AKIA1"), JStr("/a.js"), JStr("aws")>>)
      [] line = "{\"type\":\"linkfinder\",\"output\":\"/d.php\"}" ->
            JDict(<<"type", "output">>, <<JStr("linkfinder"), JStr("/d.php")>>)
      [] line = "[\"/e.php\"]" -> JList(<<JStr("/e.php")>>)
      \* "[*] Scanning", " id ", "http://t/f.php " and every other text: not JSON
      [] OTHER -> JSONDecodeError

(***************************************************************************)
(* Command Builder.                                                        *)
(***************************************************************************)
\* for header in headers: cmd.extend(["-H", header])
RECURSIVE FlagPairs(_, _)
FlagPairs(flag, xs) ==
    IF xs = <<>> THEN <<>> ELSE <<flag, Head(xs)>> \o FlagPairs(flag, Tail(xs))

HeaderTokens(headers) ==
    IF Truthy(headers) THEN FlagPairs("-H", headers.v) ELSE <<>>

\* if stable: cmd.append("--stable")
StableTokens_always(stable) == <<"--stable">>

StableTokens(stable) == IF stable THEN <<"--stable">> ELSE <<>>

SubsTokens(include_subs) == IF include_subs THEN <<"--subs">> ELSE <<>>

OtherSourceTokens(include_other_source) ==
    IF include_other_source THEN <<"--other-source">> ELSE <<>>

ArjunFormatTokens(output_format) ==
    IF output_format = "json" THEN <<"-oJ", "-">> ELSE <<"-oT", "-">>

GospiderFormatTokens(output_format) ==
    IF output_format = "json" THEN <<"--json">> ELSE <<>>

arjun_cmd(a) ==
    <<"arjun", "-u", a.url>>
    \o <<"-m", upper(a.method)>>
    \o (IF Truthy(a.wordlist) THEN <<"-w", a.wordlist.v>> ELSE <<>>)
    \o HeaderTokens(a.headers)
    \o (IF Truthy(a.data) THEN <<"-d", a.data.v>> ELSE <<>>)
    \o (IF a.delay > 0 THEN <<"--delay", str(a.delay)>> ELSE <<>>)
    \o <<"-t", str(a.timeout)>>
    \o <<"--threads", str(a.threads)>>
    \o StableTokens(a.stable)
    \o ArjunFormatTokens(a.output_format)

gospider_cmd(a) ==
    <<"gospider", "-s", a.target>>
    \o <<"-d", str(a.depth)>>
    \o <<"-c", str(a.concurrent)>>
    \o <<"-t", str(a.timeout)>>
    \o (IF Truthy(a.user_agent) THEN <<"-u", a.user_agent.v>> ELSE <<>>)
    \o HeaderTokens(a.headers)
    \o SubsTokens(a.include_subs)
    \o OtherSourceTokens(a.include_other_source)
    \o GospiderFormatTokens(a.output_format)

(***************************************************************************)
(* Output Parser of arjun_wrapper.  A parse gives [exc, msg, parameters]:  *)
(* exc is "" when the loop ran to its end, else the exception raised.      *)
(***************************************************************************)
Raised(exc, msg, parameters) == [exc |-> exc, msg |-> msg, parameters |-> parameters]

\* "parameters" in data: the key of a dict, an element of a list, a substring
\* of a str; TypeError for a value that is no container
InSupported(data) == data.t \in {"dict", "list", "str"}

InParameters(data) ==
    CASE data.t = "dict" -> HasKey(data, "parameters")
      [] data.t = "list" -> \E n \in 1..Len(data.items) : data.items[n] = JStr("parameters")
      [] data.t = "str" -> str_contains(data.s, "parameters")
      [] OTHER -> FALSE

\* what list.extend(v) adds: the elements of a list, the characters of a str,
\* the keys of a dict; TypeError for a value that is not iterable
Iterable(v) == v.t \in {"list", "str", "dict"}

Iterate(v) ==
    CASE v.t = "list" -> v.items
      [] v.t = "str" -> Chars(v.s)
      [] v.t = "dict" -> [n \in 1..Len(v.keys) |-> JStr(v.keys[n])]
      [] OTHER -> <<>>

\* One line of the structured loop: what the line adds to parameters.
LineAdds(data) ==
    IF ~InSupported(data)
    THEN Raised("TypeError", "argument of type '" \o data.t \o "' is not iterable", <<>>)
    ELSE IF InParameters(data)
    THEN IF data.t = "dict"
         THEN IF Iterable(Item(data, "parameters"))
              THEN Raised("", "", Iterate(Item(data, "parameters")))
              ELSE Raised("TypeError", "'" \o Item(data, "parameters").t
                                       \o "' object is not iterable", <<>>)
         ELSE IF data.t = "list"
         THEN Raised("TypeError", "list indices must be integers or slices, not str", <<>>)
         ELSE Raised("TypeError", "string indices must be integers, not 'str'", <<>>)
    ELSE IF data.t = "list" THEN Raised("", "", data.items)
    ELSE IF data.t = "str" THEN Raised("", "", <<data>>)
    ELSE Raised("", "", <<>>)

\* for line in result.stdout.splitlines(): ...   (the try block)
RECURSIVE ParseJsonLines(_, _)
ParseJsonLines(lines, parameters) ==
    IF lines = <<>> THEN Raised("", "", parameters)
    ELSE IF strip(Head(lines)) = "" THEN ParseJsonLines(Tail(lines), parameters)
    ELSE LET data == json_loads(Head(lines)) IN
         IF data = JSONDecodeError
         THEN Raised("JSONDecodeError", "Expecting value", parameters)
         ELSE LET adds == LineAdds(data) IN
              IF adds.exc # "" THEN Raised(adds.exc, adds.msg, parameters)
              ELSE ParseJsonLines(Tail(lines), parameters \o adds.parameters)

\* the plain text loop: stripped lines that are not blank and do not start with "["
RECURSIVE TextLines(_)
TextLines(lines) ==
    IF lines = <<>> THEN <<>>
    ELSE (IF strip(Head(lines)) # "" /\ ~startswith(Head(lines), "[")
          THEN <<JStr(strip(Head(lines)))>> ELSE <<>>)
         \o TextLines(Tail(lines))

arjun_parse(stdout, output_format) ==
    IF output_format = "json"
    THEN LET r == ParseJsonLines(stdout, <<>>) IN
         IF r.exc = "JSONDecodeError"
         THEN Raised("", "", r.parameters \o TextLines(stdout))
         ELSE r
    ELSE Raised("", "", TextLines(stdout))

(***************************************************************************)
(* Output Parser of gospider_wrapper.  A parse gives                       *)
(* [exc, msg, urls, forms, secrets].                                       *)
(***************************************************************************)
Crawl(exc, msg, urls, forms, secrets) ==
    [exc |-> exc, msg |-> msg, urls |-> urls, forms |-> forms, secrets |-> secrets]

UrlFinding(data) ==
    [url |-> Get(data, "output"), source |-> Get(data, "source"),
     tag |-> Get(data, "tag"), status |-> Get(data, "status_code")]

FormFinding(data) ==
    [url |-> Get(data, "output"), source |-> Get(data, "source"), tag |-> Get(data, "tag")]

SecretFinding(data) ==
    [secret |-> Get(data, "output"), source |-> Get(data, "source"), tag |-> Get(data, "tag")]

\* the if / elif chain on data.get("type")
AddRecord(acc, data) ==
    IF Get(data, "type") = JStr("url")
    THEN [acc EXCEPT !.urls = Append(@, UrlFinding(data))]
    ELSE IF Get(data, "type") = JStr("form")
    THEN [acc EXCEPT !.forms = Append(@, FormFinding(data))]
    ELSE IF Get(data, "type") = JStr("secret")
    THEN [acc EXCEPT !.secrets = Append(@, SecretFinding(data))]
    ELSE acc

\* for line in result.stdout.splitlines(): ... with the try inside the loop;
\* data.get on a value that is no dict raises AttributeError, which the
\* inner "except json.JSONDecodeError" does not catch
RECURSIVE GospiderJsonLines(_, _)
GospiderJsonLines(lines, acc) ==
    IF lines = <<>> THEN acc
    ELSE IF strip(Head(lines)) = "" THEN GospiderJsonLines(Tail(lines), acc)
    ELSE LET data == json_loads(Head(lines)) IN
         IF data = JSONDecodeError THEN GospiderJsonLines(Tail(lines), acc)
         ELSE IF data.t # "dict"
         THEN [acc EXCEPT !.exc = "AttributeError",
                          !.msg = "'" \o data.t \o "' object has no attribute 'get'"]
         ELSE GospiderJsonLines(Tail(lines), AddRecord(acc, data))

TextUrl(line) ==
    [url |-> JStr(strip(line)), source |-> JStr("crawl"), tag |-> JStr("url"), status |-> JNull]

RECURSIVE GospiderTextLines(_)
GospiderTextLines(lines) ==
    IF lines = <<>> THEN <<>>
    ELSE (IF strip(Head(lines)) # "" /\ startswith(Head(lines), "http")
          THEN <<TextUrl(Head(lines))>> ELSE <<>>)
         \o GospiderTextLines(Tail(lines))

gospider_parse(stdout, output_format) ==
    IF output_format = "json"
    THEN GospiderJsonLines(stdout, Crawl("", "", <<>>, <<>>, <<>>))
    ELSE Crawl("", "", GospiderTextLines(stdout), <<>>, <<>>)

(***************************************************************************)
(* Result Envelope Builder.                                                *)
(***************************************************************************)
arjun_success(a, parameters) ==
    [success |-> TRUE, target |-> a.url, method |-> upper(a.method),
     parameters |-> parameters, count |-> Len(parameters)]

gospider_success(a, p) ==
    [success |-> TRUE, target |-> a.target,
     urls |-> p.urls, forms |-> p.forms, secrets |-> p.secrets,
     stats |-> [total_urls |-> Len(p.urls), total_forms |-> Len(p.forms),
                total_secrets |-> Len(p.secrets)]]

\* str(cmd) of a list of str, as CalledProcessError prints it
RECURSIVE ReprItems(_)
ReprItems(xs) ==
    IF xs = <<>> THEN ""
    ELSE "'" \o Head(xs) \o "'" \o (IF Len(xs) > 1 THEN ", " ELSE "") \o ReprItems(Tail(xs))

\* str(e) of subprocess.CalledProcessError
CalledProcessErrorText(c, rc) ==
    "Command '[" \o ReprItems(c) \o "]' returned non-zero exit status " \o str(rc) \o "."

\* str(e) of the OSError raised when the executable cannot be started
OSErrorText(errno, exe) ==
    IF errno = 2 THEN "[Errno 2] No such file or directory: '" \o exe \o "'"
    ELSE "[Errno " \o str(errno) \o "] Permission denied: '" \o exe \o "'"

CommandFailure_raw_stderr(c, rc, stderr) ==
    [success |-> FALSE, error |-> CalledProcessErrorText(c, rc), stderr |-> stderr]

\* except subprocess.CalledProcessError as e
CommandFailure(c, rc, stderr) ==
    [success |-> FALSE, error |-> CalledProcessErrorText(c, rc),
     stderr |-> IF stderr # "" THEN stderr ELSE "Command execution failed"]

\* except Exception as e
ExecutionFailure(msg) == [success |-> FALSE, error |-> msg]

(***************************************************************************)
(* Aggregation Layer: post-filter, custom parameter matching, bulk dict.   *)
(***************************************************************************)
Return(env) == [kind |-> "return", env |-> env]
Raise(exc) == [kind |-> "raise", exc |-> exc]
NotReturned == [kind |-> "none"]

\* any(url["url"].endswith(f".{ext}") for ext in exts)
MatchesAny(u, exts) == \E n \in 1..Len(exts) : endswith(u.url.s, "." \o exts[n])

\* None.endswith, and endswith of any value that is no str, raises AttributeError
HasStrUrl(u) == u.url.t = "str"

AllStrUrls(urls) == \A n \in 1..Len(urls) : HasStrUrl(urls[n])

IncludeFilter_keep_all(urls, exts) == urls

IncludeFilter(urls, exts) == SelectSeq(urls, LAMBDA u : MatchesAny(u, exts))

ExcludeFilter(urls, exts) == SelectSeq(urls, LAMBDA u : ~MatchesAny(u, exts))

\* results["urls"] = filtered_urls; results["stats"]["total_urls"] = len(filtered_urls);
\* results["filtered"] = True
FilteredEnvelope_stale_count(results, filtered_urls) ==
    [results EXCEPT !.urls = filtered_urls] @@ [filtered |-> TRUE]

FilteredEnvelope(results, filtered_urls) ==
    [results EXCEPT !.urls = filtered_urls, !.stats.total_urls = Len(filtered_urls)]
    @@ [filtered |-> TRUE]

\* gospider_crawl_with_filter after the base call
gospider_crawl_with_filter_post(results, a) ==
    IF ~results.success THEN Return(results)
    ELSE IF Truthy(a.extensions) /\ ~AllStrUrls(results.urls) THEN Raise("AttributeError")
    ELSE LET included == IF Truthy(a.extensions)
                         THEN IncludeFilter(results.urls, a.extensions.v)
                         ELSE results.urls IN
         IF Truthy(a.exclude_extensions) /\ ~AllStrUrls(included) THEN Raise("AttributeError")
         ELSE LET filtered_urls == IF Truthy(a.exclude_extensions)
                                   THEN ExcludeFilter(included, a.exclude_extensions.v)
                                   ELSE included IN
              Return(FilteredEnvelope(results, filtered_urls))

\* param in results["parameters"]
InList(x, xs) == \E n \in 1..Len(xs) : xs[n] = x

\* arjun_with_custom_payloads after the base call
arjun_with_custom_payloads_post(results, a) ==
    IF ~results.success THEN Return(results)
    ELSE IF Truthy(a.custom_params)
    THEN LET custom_found ==
                 SelectSeq(a.custom_params.v, LAMBDA p : InList(JStr(p), results.parameters)) IN
         Return(results @@ [custom_parameters_tested |-> a.custom_params.v,
                            custom_parameters_found |-> custom_found,
                            custom_match_count |-> Len(custom_found)])
    ELSE Return(results)

\* all_results[url] = value on a dict held as the sequence of its items:
\* a new key goes last, a key already there keeps its place
DictKeys(d) == [n \in 1..Len(d) |-> d[n].key]

DictHas(d, k) == \E n \in 1..Len(d) : d[n].key = k

DictGet(d, k) == d[CHOOSE n \in 1..Len(d) : d[n].key = k].value

DictSet_append(d, k, v) == Append(d, [key |-> k, value |-> v])

DictSet_front(d, k, v) ==
    IF DictHas(d, k)
    THEN [n \in 1..Len(d) |-> IF d[n].key = k THEN [key |-> k, value |-> v] ELSE d[n]]
    ELSE <<[key |-> k, value |-> v]>> \o d

DictSet(d, k, v) ==
    IF DictHas(d, k)
    THEN [n \in 1..Len(d) |-> IF d[n].key = k THEN [key |-> k, value |-> v] ELSE d[n]]
    ELSE Append(d, [key |-> k, value |-> v])

\* the entry the bulk loop records for one target
BulkEntry_keep_findings(r) ==
    IF r.success
    THEN [parameters |-> r.parameters, count |-> r.count]
    ELSE [error |-> r.error, parameters |-> <<JStr("stale")>>, count |-> 1]

BulkEntry(r) ==
    IF r.success
    THEN [parameters |-> r.parameters, count |-> r.count]
    ELSE [error |-> r.error, parameters |-> <<>>, count |-> 0]

\* the arguments arjun_bulk_scan passes to arjun_wrapper for one target
ArjunDefaults(url) ==
    [url |-> url, method |-> "GET", wordlist |-> NoneStr, headers |-> None,
     data |-> NoneStr, delay |-> 0, timeout |-> 10, threads |-> 25,
     stable |-> FALSE, output_format |-> "json"]

BulkWrapperArgs(a, url) ==
    [ArjunDefaults(url) EXCEPT !.method = a.method, !.wordlist = a.wordlist,
                               !.threads = a.threads, !.stable = a.stable]

\* arjun_wrapper(url, method, wordlist, **kwargs)
CustomWrapperArgs(a) ==
    [ArjunDefaults(a.url) EXCEPT !.method = a.method, !.wordlist = a.wordlist,
                                 !.timeout = a.timeout, !.threads = a.threads,
                                 !.stable = a.stable]

GospiderDefaults(target) ==
    [target |-> target, depth |-> 3, concurrent |-> 10, timeout |-> 10,
     user_agent |-> NoneStr, headers |-> None, include_subs |-> FALSE,
     include_other_source |-> FALSE, output_format |-> "json"]

\* gospider_wrapper(target, **kwargs)
FilterWrapperArgs(a) ==
    [GospiderDefaults(a.target) EXCEPT !.depth = a.depth, !.concurrent = a.concurrent,
                                       !.timeout = a.timeout, !.include_subs = a.include_subs]

(***************************************************************************)
(* Inputs: the argument sets a caller may pass and what a subprocess may   *)
(* do.                                                                     *)
(***************************************************************************)
HeaderSample == {"X-Api: 1", "Cookie: a=b; --stable -H"}

HeaderLists == {None} \cup {Some(h) : h \in SeqsUpTo(HeaderSample, MaxHeaders)}

\* json and txt are the documented formats; xml is not one
Formats == {"json", "txt", "xml"}

ArjunArgs ==
    {[ArjunDefaults("http://t/a") EXCEPT !.headers = h, !.stable = st] :
        h \in HeaderLists, st \in BOOLEAN}
    \cup {[ArjunDefaults("http://t/a") EXCEPT !.output_format = f] : f \in Formats}
    \cup {[ArjunDefaults("http://t/a b") EXCEPT !.method = "post",
              !.wordlist = Some("w.txt"), !.data = Some("a=1"), !.delay = 2]}

GospiderArgs ==
    {[GospiderDefaults("http://t") EXCEPT !.headers = h, !.include_subs = su,
                                          !.include_other_source = os] :
        h \in HeaderLists, su \in BOOLEAN, os \in BOOLEAN}
    \cup {[GospiderDefaults("http://t") EXCEPT !.output_format = f] : f \in Formats}
    \cup {[GospiderDefaults("http://t") EXCEPT !.user_agent = Some("UA 1.0")]}

IncludeLists == {None, Some(<<>>), Some(<<"php">>), Some(<<"js", "php">>)}
ExcludeLists == {None, Some(<<"png">>), Some(<<"php">>)}

FilterArgs ==
    {[target |-> "http://t", extensions |-> inc, exclude_extensions |-> exc,
      filter_length |-> None, depth |-> 3, concurrent |-> 10, timeout |-> 10,
      include_subs |-> FALSE] : inc \in IncludeLists, exc \in ExcludeLists}

CustomSample == {"id", "zz"}

CustomArgs ==
    {[url |-> "http://t/a", method |-> "GET", custom_params |-> cp,
      wordlist |-> NoneStr, timeout |-> 10, threads |-> 25, stable |-> FALSE] :
        cp \in {None} \cup {Some(c) : c \in SeqsUpTo(CustomSample, MaxCustom)}}

Targets == {"http://a", "http://b", "http://c"}

BulkArgs ==
    {[urls |-> us, method |-> "get", wordlist |-> NoneStr, threads |-> 25,
      stable |-> FALSE] : us \in SeqsUpTo(Targets, MaxUrls)}

\* the lines a crawl prints in a filtered call
FilterLines ==
    { "{\"type\":\"url\",\"output\":\"/a.js\",\"source\":\"body\",\"tag\":\"script\",\"status_code\":200}",
      "{\"type\":\"url\",\"output\":\"/b.php\",\"source\":\"body\",\"tag\":\"a\",\"status_code\":200}",
      "{\"type\":\"url\",\"output\":\"/c.png\",\"source\":\"body\",\"tag\":\"img\",\"status_code\":404}",
      "{\"type\":\"url\",\"source\":\"body\"}",
      "{\"type\":\"form\",\"output\":\"/login.php\",\"source\":\"body\",\"tag\":\"form\"}" }

\* what one target of a bulk scan prints
BulkStdouts ==
    { <<"{\"parameters\": [\"id\", \"q\"]}">>, <<"[\"debug\", \"page\"]">> }

\* stdout of a subprocess that exits 0, as the sequence of its lines
Stdouts(o) ==
    CASE o \in {"arjun_wrapper", "arjun_with_custom_payloads"} -> SeqsUpTo(ArjunLines, MaxLines)
      [] o = "arjun_bulk_scan" -> BulkStdouts
      [] o = "gospider_wrapper" -> SeqsUpTo(GospiderLines, MaxLines)
      [] o = "gospider_crawl_with_filter" -> SeqsUpTo(FilterLines, MaxFilterLines)

Stderrs == {"", "boom"}

\* stdout of a subprocess that exits non-zero: nothing, or a line the parser
\* would have turned into findings
FailedStdouts(o) ==
    IF o \in {"gospider_wrapper", "gospider_crawl_with_filter"}
    THEN { <<>>, <<"{\"type\":\"url\",\"output\":\"/b.php\",\"source\":\"body\",\"tag\":\"a\",\"status_code\":200}">> }
    ELSE { <<>>, <<"{\"parameters\": [\"id\", \"q\"]}">> }

\* the tool the operation runs
Tool(o) == IF o \in {"gospider_wrapper", "gospider_crawl_with_filter"} THEN "gospider" ELSE "arjun"

NoResult == [kind |-> "none"]
NoParsed == [exc |-> "", msg |-> ""]
NoEnv == [none |-> TRUE]

(***************************************************************************)
(* The state machine.                                                      *)
(***************************************************************************)
Init ==
    /\ op = "idle"
    /\ args = [none |-> TRUE]
    /\ wargs = [none |-> TRUE]
    /\ wpc = "none"
    /\ cmd = <<>>
    /\ running = 0
    /\ result = NoResult
    /\ parsed = NoParsed
    /\ wenv = NoEnv
    /\ ret = NotReturned
    /\ i = 0
    /\ all_results = <<>>
    /\ successful_scans = 0
    /\ failed_scans = 0
    /\ scanned = <<>>
    /\ hist = <<>>
    /\ steps = <<>>

\* entry of arjun_wrapper / gospider_wrapper with arguments a
StartWrapper(a) ==
    /\ wargs' = a
    /\ wpc' = "build"
    /\ cmd' = <<>>
    /\ result' = NoResult
    /\ parsed' = NoParsed
    /\ wenv' = NoEnv
    /\ steps' = <<>>

bulk_vars == <<i, all_results, successful_scans, failed_scans, scanned, hist>>

Call_arjun_wrapper ==
    /\ op = "idle"
    /\ \E a \in ArjunArgs : args' = a /\ StartWrapper(a)
    /\ op' = "arjun_wrapper"
    /\ UNCHANGED <<running, ret, bulk_vars>>

Call_gospider_wrapper ==
    /\ op = "idle"
    /\ \E a \in GospiderArgs : args' = a /\ StartWrapper(a)
    /\ op' = "gospider_wrapper"
    /\ UNCHANGED <<running, ret, bulk_vars>>

Call_gospider_crawl_with_filter ==
    /\ op = "idle"
    /\ \E a \in FilterArgs : args' = a /\ StartWrapper(FilterWrapperArgs(a))
    /\ op' = "gospider_crawl_with_filter"
    /\ UNCHANGED <<running, ret, bulk_vars>>

Call_arjun_with_custom_payloads ==
    /\ op = "idle"
    /\ \E a \in CustomArgs : args' = a /\ StartWrapper(CustomWrapperArgs(a))
    /\ op' = "arjun_with_custom_payloads"
    /\ UNCHANGED <<running, ret, bulk_vars>>

Call_arjun_bulk_scan ==
    /\ op = "idle"
    /\ \E a \in BulkArgs : args' = a
    /\ op' = "arjun_bulk_scan"
    /\ i' = 1
    /\ all_results' = <<>>
    /\ successful_scans' = 0
    /\ failed_scans' = 0
    /\ UNCHANGED <<wargs, wpc, cmd, running, result, parsed, wenv, ret, scanned, hist, steps>>

\* cmd = [...]; cmd.extend(...)
BuildCommand ==
    /\ wpc = "build"
    /\ cmd' = IF Tool(op) = "arjun" THEN arjun_cmd(wargs) ELSE gospider_cmd(wargs)
    /\ wpc' = "exec"
    /\ steps' = Append(steps, "build")
    /\ UNCHANGED <<op, args, wargs, running, result, parsed, wenv, ret, bulk_vars>>

\* subprocess.run: the executable cannot be started (OSError, "except Exception")
LaunchFails ==
    /\ wpc = "exec"
    /\ result' = [kind |-> "oserror", errno |-> 2]
    /\ wenv' = ExecutionFailure(OSErrorText(2, cmd[1]))
    /\ wpc' = "done"
    /\ steps' = Append(steps, "exec")
    /\ UNCHANGED <<op, args, wargs, cmd, running, parsed, ret, bulk_vars>>

\* subprocess.run: the child process starts; the call blocks until it exits
Launch ==
    /\ wpc = "exec"
    /\ running' = running + 1
    /\ wpc' = "wait"
    /\ steps' = Append(steps, "exec")
    /\ UNCHANGED <<op, args, wargs, cmd, result, parsed, wenv, ret, bulk_vars>>

\* the child exits non-zero: check=True raises CalledProcessError
ExitNonZero ==
    /\ wpc = "wait"
    /\ \E out \in FailedStdouts(op), stderr \in Stderrs :
          /\ result' = [kind |-> "exit", rc |-> 1, stdout |-> out, stderr |-> stderr]
          /\ wenv' = CommandFailure(cmd, 1, stderr)
    /\ running' = running - 1
    /\ wpc' = "done"
    /\ UNCHANGED <<op, args, wargs, cmd, parsed, ret, bulk_vars, steps>>

\* the child exits 0 with some stdout
ExitZero ==
    /\ wpc = "wait"
    /\ \E out \in Stdouts(op) :
          result' = [kind |-> "exit", rc |-> 0, stdout |-> out, stderr |-> ""]
    /\ running' = running - 1
    /\ wpc' = "parse"
    /\ UNCHANGED <<op, args, wargs, cmd, parsed, wenv, ret, bulk_vars, steps>>

\* the parse of result.stdout; an exception other than the ones the parser
\* handles lands in "except Exception"
ParseOutput ==
    /\ wpc = "parse"
    /\ LET p == IF Tool(op) = "arjun"
                THEN arjun_parse(result.stdout, wargs.output_format)
                ELSE gospider_parse(result.stdout, wargs.output_format) IN
          /\ parsed' = p
          /\ IF p.exc = ""
             THEN wpc' = "envelope" /\ wenv' = wenv
             ELSE wpc' = "done" /\ wenv' = ExecutionFailure(p.msg)
    /\ steps' = Append(steps, "parse")
    /\ UNCHANGED <<op, args, wargs, cmd, running, result, ret, bulk_vars>>

\* return {"success": True, ...}
BuildEnvelope ==
    /\ wpc = "envelope"
    /\ wenv' = IF Tool(op) = "arjun"
               THEN arjun_success(wargs, parsed.parameters)
               ELSE gospider_success(wargs, parsed)
    /\ wpc' = "done"
    /\ steps' = Append(steps, "envelope")
    /\ UNCHANGED <<op, args, wargs, cmd, running, result, parsed, ret, bulk_vars>>

\* arjun_wrapper / gospider_wrapper called directly: the envelope goes to the caller
Return_wrapper ==
    /\ op \in {"arjun_wrapper", "gospider_wrapper"}
    /\ wpc = "done"
    /\ ret = NotReturned
    /\ ret' = Return(wenv)
    /\ UNCHANGED <<op, args, wargs, wpc, cmd, running, result, parsed, wenv, bulk_vars, steps>>

Return_gospider_crawl_with_filter ==
    /\ op = "gospider_crawl_with_filter"
    /\ wpc = "done"
    /\ ret = NotReturned
    /\ ret' = gospider_crawl_with_filter_post(wenv, args)
    /\ UNCHANGED <<op, args, wargs, wpc, cmd, running, result, parsed, wenv, bulk_vars, steps>>

Return_arjun_with_custom_payloads ==
    /\ op = "arjun_with_custom_payloads"
    /\ wpc = "done"
    /\ ret = NotReturned
    /\ ret' = arjun_with_custom_payloads_post(wenv, args)
    /\ UNCHANGED <<op, args, wargs, wpc, cmd, running, result, parsed, wenv, bulk_vars, steps>>

\* for url in urls: result = arjun_wrapper(url=url, ...)
BulkMayScan == wpc = "none" /\ i <= Len(args.urls)

BulkScan ==
    /\ op = "arjun_bulk_scan"
    /\ ret = NotReturned
    /\ BulkMayScan
    /\ StartWrapper(BulkWrapperArgs(args, args.urls[i]))
    /\ scanned' = Append(scanned, args.urls[i])
    /\ UNCHANGED <<op, args, running, ret, i, all_results, successful_scans, failed_scans, hist>>

\* if result["success"]: ... else: ...   (the body of the loop after the call)
BulkRecord ==
    /\ op = "arjun_bulk_scan"
    /\ wpc = "done"
    /\ all_results' = DictSet(all_results, args.urls[i], BulkEntry(wenv))
    /\ successful_scans' = IF wenv.success THEN successful_scans + 1 ELSE successful_scans
    /\ failed_scans' = IF wenv.success THEN failed_scans ELSE failed_scans + 1
    /\ hist' = Append(hist, wenv)
    /\ i' = i + 1
    /\ wpc' = "none"
    /\ UNCHANGED <<op, args, wargs, cmd, running, result, parsed, wenv, ret, scanned, steps>>

bulk_result(a, results, successful, failed) ==
    [success |-> TRUE, method |-> upper(a.method), total_urls |-> Len(a.urls),
     successful_scans |-> successful, failed_scans |-> failed, results |-> results]

Return_arjun_bulk_scan ==
    /\ op = "arjun_bulk_scan"
    /\ ret = NotReturned
    /\ wpc = "none"
    /\ i > Len(args.urls)
    /\ ret' = Return(bulk_result(args, all_results, successful_scans, failed_scans))
    /\ UNCHANGED <<op, args, wargs, wpc, cmd, running, result, parsed, wenv, bulk_vars, steps>>

Next ==
    \/ Call_arjun_wrapper
    \/ Call_gospider_wrapper
    \/ Call_gospider_crawl_with_filter
    \/ Call_arjun_with_custom_payloads
    \/ Call_arjun_bulk_scan
    \/ BuildCommand
    \/ LaunchFails
    \/ Launch
    \/ ExitNonZero
    \/ ExitZero
    \/ ParseOutput
    \/ BuildEnvelope
    \/ Return_wrapper
    \/ Return_gospider_crawl_with_filter
    \/ Return_arjun_with_custom_payloads
    \/ BulkScan
    \/ BulkRecord
    \/ Return_arjun_bulk_scan

Spec == Init /\ [][Next]_vars

(***************************************************************************)
(* Properties.                                                             *)
(***************************************************************************)
Field(env, k) == IF k \in DOMAIN env THEN env[k] ELSE <<>>

Count(xs, x) == Cardinality({n \in 1..Len(xs) : xs[n] = x})

Range(xs) == {xs[n] : n \in 1..Len(xs)}

CountsMatch(env) ==
    /\ "parameters" \in DOMAIN env => env.count = Len(env.parameters)
    /\ "urls" \in DOMAIN env =>
          /\ env.stats.total_urls = Len(env.urls)
          /\ env.stats.total_forms = Len(env.forms)
          /\ env.stats.total_secrets = Len(env.secrets)
    /\ "parameters" \in DOMAIN env \/ "urls" \in DOMAIN env

EnvelopeOK(env) ==
    IF env.success
    THEN CountsMatch(env)
    ELSE /\ \A k \in {"parameters", "urls", "forms", "secrets"} : Field(env, k) = <<>>
         /\ "error" \in DOMAIN env
         /\ env.error # ""

\* C1: every envelope returned by arjun_wrapper and gospider_wrapper (called
\* directly or by another operation) and by gospider_crawl_with_filter and
\* arjun_with_custom_payloads has, when success is false, no findings and a
\* non-empty error string, and, when success is true, counts equal to the
\* lengths of the collections it holds.
C1_EnvelopeInvariant ==
    /\ wpc = "done" => EnvelopeOK(wenv)
    /\ (op \in {"gospider_crawl_with_filter", "arjun_with_custom_payloads"}
        /\ ret.kind = "return") => EnvelopeOK(ret.env)

\* a filtered crawl that dropped a URL and returned the recomputed count
C1_Witness ==
    /\ op = "gospider_crawl_with_filter"
    /\ ret.kind = "return"
    /\ ret.env.success
    /\ Len(ret.env.urls) < Len(wenv.urls)
    /\ Len(ret.env.forms) = 1

BulkReturned == op = "arjun_bulk_scan" /\ ret.kind = "return"

\* C2 as claimed: total_urls = successful_scans + failed_scans, every input
\* target is a key of results exactly once, and the number of keys equals
\* total_urls.
C2_KeysEqualTotal ==
    BulkReturned =>
        /\ ret.env.total_urls = ret.env.successful_scans + ret.env.failed_scans
        /\ \A u \in Range(args.urls) : Count(DictKeys(ret.env.results), u) = 1
        /\ Len(ret.env.results) = ret.env.total_urls

\* C2 (amended): total_urls = successful_scans + failed_scans = the length of
\* the list of targets, the keys of results are exactly the distinct input
\* targets, each once, so the number of keys is the number of distinct
\* targets (and equals total_urls only when no URL is repeated).
C2_KeysAreDistinctTargets ==
    BulkReturned =>
        /\ ret.env.total_urls = Len(args.urls)
        /\ ret.env.total_urls = ret.env.successful_scans + ret.env.failed_scans
        /\ Range(DictKeys(ret.env.results)) = Range(args.urls)
        /\ \A u \in Range(args.urls) : Count(DictKeys(ret.env.results), u) = 1
        /\ Len(ret.env.results) = Cardinality(Range(args.urls))
        /\ (Len(ret.env.results) = ret.env.total_urls
              <=> Cardinality(Range(args.urls)) = Len(args.urls))

\* a bulk scan of three targets, one of them repeated
C2_Witness ==
    /\ BulkReturned
    /\ ret.env.total_urls = 3
    /\ Len(ret.env.results) = 2
    /\ ret.env.successful_scans = 1
    /\ ret.env.failed_scans = 2

\* the last position of u in xs
LastIndex(xs, u) == CHOOSE n \in 1..Len(xs) : xs[n] = u /\ \A m \in (n + 1)..Len(xs) : xs[m] # u

\* what the claim says is recorded for a target whose wrapper returned env
RecordedAs(entry, env) ==
    IF env.success
    THEN entry = [parameters |-> env.parameters, count |-> env.count]
    ELSE /\ DOMAIN entry = {"error", "parameters", "count"}
         /\ entry.error = env.error
         /\ entry.parameters = <<>>
         /\ entry.count = 0

\* C3: in arjun_bulk_scan a target whose subprocess exits non-zero or cannot
\* be launched gives a failed wrapper result and does not stop the loop: the
\* target just handled is recorded with its error, empty parameters and
\* count 0 (or, when it succeeded, with its parameters and count), the
\* counters count the failed and the succeeded targets, every target is
\* scanned before the call returns, and the returned envelope has
\* success = true.
C3_PartialFailure ==
    op = "arjun_bulk_scan" =>
        /\ (wpc = "done" /\ (result.kind = "oserror" \/ result.rc # 0)) => ~wenv.success
        /\ (wpc = "none" /\ Len(hist) > 0) =>
              RecordedAs(DictGet(all_results, args.urls[Len(hist)]), hist[Len(hist)])
        /\ successful_scans = Cardinality({n \in 1..Len(hist) : hist[n].success})
        /\ failed_scans = Cardinality({n \in 1..Len(hist) : ~hist[n].success})
        /\ ret.kind # "raise"
        /\ ret.kind = "return" =>
              /\ ret.env.success
              /\ scanned = args.urls
              /\ Len(hist) = Len(args.urls)
              /\ ret.env.successful_scans = successful_scans
              /\ ret.env.failed_scans = failed_scans
              /\ \A u \in Range(args.urls) :
                    RecordedAs(DictGet(ret.env.results, u), hist[LastIndex(args.urls, u)])

\* targets [a, b, c] where b's subprocess exits non-zero
C3_Witness ==
    /\ BulkReturned
    /\ args.urls = <<"http://a", "http://b", "http://c">>
    /\ hist[1].success /\ ~hist[2].success /\ hist[3].success
    /\ "stderr" \in DOMAIN hist[2]
    /\ ret.env.successful_scans = 2
    /\ ret.env.failed_scans = 1
    /\ DictGet(ret.env.results, "http://b").parameters = <<>>
    /\ DictGet(ret.env.results, "http://c").count = 2

\* C4: no operation lets an exception escape to its caller: every call ends
\* by returning an envelope.
C4_NeverRaises == ret.kind # "raise"

\* C5: a call of arjun_wrapper or gospider_wrapper with an output_format
\* outside {json, txt} builds no command and launches no subprocess, and does
\* not return a success envelope.
C5_ValidationBeforeLaunch ==
    (op \in {"arjun_wrapper", "gospider_wrapper"} /\ args.output_format \notin {"json", "txt"}) =>
        /\ cmd = <<>>
        /\ running = 0
        /\ result = NoResult
        /\ wpc = "done" => ~wenv.success

\* "ends with .<ext> for some ext of the include list (when given) and for no
\* ext of the exclude list (when given)"; a list is given when it is not
\* None and not empty
KeptByFilter(u, a) ==
    /\ Truthy(a.extensions) =>
          \E n \in 1..Len(a.extensions.v) : endswith(u.url.s, "." \o a.extensions.v[n])
    /\ Truthy(a.exclude_extensions) =>
          \A n \in 1..Len(a.exclude_extensions.v) :
              ~endswith(u.url.s, "." \o a.exclude_extensions.v[n])

UrlValues(urls) == [n \in 1..Len(urls) |-> urls[n].url]

RECURSIVE FirstOccurrences(_)
FirstOccurrences(xs) ==
    IF xs = <<>> THEN <<>>
    ELSE LET front == FirstOccurrences(SubSeq(xs, 1, Len(xs) - 1)) IN
         IF xs[Len(xs)] \in Range(front) THEN front ELSE Append(front, xs[Len(xs)])

\* C7: arjun_bulk_scan hands its targets to arjun_wrapper one at a time in the
\* order supplied: a target is scanned only after every earlier one has been
\* recorded, at most one subprocess runs at any moment, and the entries of
\* results are in the order in which the targets were supplied.
C7_SequentialInOrder ==
    op = "arjun_bulk_scan" =>
        /\ running <= 1
        /\ Len(scanned) <= Len(args.urls)
        /\ scanned = SubSeq(args.urls, 1, Len(scanned))
        /\ Len(scanned) = Len(hist) + (IF wpc = "none" THEN 0 ELSE 1)
        /\ running = 1 => wpc = "wait"
        /\ DictKeys(all_results) = FirstOccurrences(SubSeq(args.urls, 1, Len(hist)))
        /\ ret.kind = "return" => DictKeys(ret.env.results) = FirstOccurrences(args.urls)

\* the third target's subprocess runs after b and a have been recorded
C7_Witness ==
    /\ op = "arjun_bulk_scan"
    /\ running = 1
    /\ Len(hist) = 2
    /\ args.urls = <<"http://b", "http://a", "http://c">>
    /\ DictKeys(all_results) = <<"http://b", "http://a">>

\* the tokens that follow each occurrence of flag
RECURSIVE ValuesAfter(_, _)
ValuesAfter(c, flag) ==
    IF Len(c) < 2 THEN <<>>
    ELSE IF c[1] = flag THEN <<c[2]>> \o ValuesAfter(SubSeq(c, 3, Len(c)), flag)
    ELSE ValuesAfter(Tail(c), flag)

Once(b) == IF b THEN 1 ELSE 0

\* C8: the command built by arjun_wrapper and gospider_wrapper holds the flag
\* of each boolean option (--stable; --subs, --other-source) once when the
\* option is true and not at all when it is false, and one -H followed by the
\* whole header, as one token, for each element of headers, in order.
C8_FlagMapping ==
    wpc \notin {"none", "build"} =>
        /\ Count(cmd, "-H") = (IF wargs.headers.some THEN Len(wargs.headers.v) ELSE 0)
        /\ ValuesAfter(cmd, "-H") = (IF wargs.headers.some THEN wargs.headers.v ELSE <<>>)
        /\ IF Tool(op) = "arjun"
           THEN /\ Count(cmd, "--stable") = Once(wargs.stable)
                /\ cmd[1] = "arjun"
           ELSE /\ Count(cmd, "--subs") = Once(wargs.include_subs)
                /\ Count(cmd, "--other-source") = Once(wargs.include_other_source)
                /\ cmd[1] = "gospider"

\* arjun with --stable and two headers, the one with spaces first
C8_Witness ==
    /\ op = "arjun_wrapper"
    /\ wpc = "exec"
    /\ wargs.stable
    /\ wargs.headers = Some(<<"Cookie: a=b; --stable -H", "X-Api: 1">>)
    /\ Len(cmd) = 16

\* a line that is a well-formed record of the given type
IsRecord(line, type) ==
    json_loads(line).t = "dict" /\ Get(json_loads(line), "type") = JStr(type)

RecordsOf(stdout, type) == SelectSeq(stdout, LAMBDA line : IsRecord(line, type))

ExitedZero == wpc = "done" /\ result.kind = "exit" /\ result.rc = 0

\* C9: gospider_wrapper in json mode, on an exit 0 whose stdout is N records
\* (objects of type url, form or secret) mixed with M non-blank lines that
\* are not records, returns success = true with the N records as findings, in
\* input order within each category; the M lines are not counted and not fatal.
C9_ParserRoundTrip ==
    (/\ op = "gospider_wrapper"
     /\ wargs.output_format = "json"
     /\ ExitedZero
     /\ \A n \in 1..Len(result.stdout) : strip(result.stdout[n]) # "") =>
        /\ wenv.success
        /\ wenv.urls = [n \in 1..Len(RecordsOf(result.stdout, "url")) |->
                            UrlFinding(json_loads(RecordsOf(result.stdout, "url")[n]))]
        /\ Len(wenv.forms) = Len(RecordsOf(result.stdout, "form"))
        /\ Len(wenv.secrets) = Len(RecordsOf(result.stdout, "secret"))

\* what the claim says one line contributes
Contribution(line) ==
    LET data == json_loads(line) IN
    IF data.t = "dict" /\ HasKey(data, "parameters") /\ Item(data, "parameters").t = "list"
    THEN Item(data, "parameters").items
    ELSE IF data.t = "list" THEN data.items
    ELSE IF data.t = "str" THEN <<data>>
    ELSE <<>>

RECURSIVE Flattened(_)
Flattened(lines) ==
    IF lines = <<>> THEN <<>>
    ELSE (IF strip(Head(lines)) = "" THEN <<>> ELSE Contribution(Head(lines)))
         \o Flattened(Tail(lines))

\* C10: arjun_wrapper in json mode, on an exit 0, returns success = true with
\* parameters equal to the in-order concatenation of what each non-blank line
\* of stdout contributes: the parameters field of an object, the elements of
\* an array, a bare string itself, and nothing for a line that does not decode.
C10_PerLineFlattening ==
    (op = "arjun_wrapper" /\ wargs.output_format = "json" /\ ExitedZero) =>
        /\ wenv.success
        /\ wenv.parameters = Flattened(result.stdout)

\* the steps of the pipeline, in their order
Pipeline == <<"build", "exec", "parse", "envelope">>

IsPrefix(xs, ys) == Len(xs) <= Len(ys) /\ xs = SubSeq(ys, 1, Len(xs))

\* the position a wrapper call is at after the steps xs
AfterSteps(xs) ==
    CASE xs = <<>> -> {"build"}
      [] xs = <<"build">> -> {"exec"}
      [] xs = <<"build", "exec">> -> {"wait", "parse", "done"}
      [] xs = <<"build", "exec", "parse">> -> {"envelope", "done"}
      [] xs = Pipeline -> {"done"}
      [] OTHER -> {}

\* the subprocess of the current wrapper call exited non-zero or did not start
ExecutionFailed ==
    \/ result.kind = "oserror"
    \/ result.kind = "exit" /\ result.rc # 0

\* C11: in every call of arjun_wrapper and gospider_wrapper (direct, or made
\* by the filter, custom-payload and bulk operations) the steps taken so far
\* are a prefix of build, execute, parse, envelope, so each step occurs at
\* most once and in that order, and a success envelope exists only after all
\* four.  When the subprocess exits non-zero or cannot be launched the parser
\* is never run and the call is over with a failure envelope: for a non-zero
\* exit its stderr field is the captured stderr, or "Command execution
\* failed" when that is empty; for a launch failure it is the error text
\* alone.  gospider_crawl_with_filter and arjun_with_custom_payloads return a
\* failed base result as it is, with no filtered or custom_* key.
C11_LinearPipeline ==
    /\ wpc # "none" =>
          /\ IsPrefix(steps, Pipeline)
          /\ wpc \in AfterSteps(steps)
          /\ (wpc = "done" /\ wenv.success) => steps = Pipeline
    /\ (wpc # "none" /\ ExecutionFailed) =>
          /\ wpc = "done"
          /\ steps = <<"build", "exec">>
          /\ parsed = NoParsed
          /\ ~wenv.success
          /\ wenv.error # ""
          /\ result.kind = "exit" =>
                /\ DOMAIN wenv = {"success", "error", "stderr"}
                /\ wenv.stderr = IF result.stderr = "" THEN "Command execution failed"
                                  ELSE result.stderr
          /\ result.kind = "oserror" => DOMAIN wenv = {"success", "error"}
          /\ (ret # NotReturned /\ op # "arjun_bulk_scan") => ret = Return(wenv)
    /\ (op \in {"gospider_crawl_with_filter", "arjun_with_custom_payloads"}
          /\ ret # NotReturned /\ ~wenv.success) => ret = Return(wenv)

\* a filtered call with both lists given whose crawl printed a url record and
\* exited non-zero with empty stderr has returned
C11_Witness ==
    /\ op = "gospider_crawl_with_filter"
    /\ Truthy(args.extensions)
    /\ result.kind = "exit" /\ result.rc # 0
    /\ result.stdout # <<>> /\ result.stderr = ""
    /\ ret.kind = "return"
    /\ ret.env.stderr = "Command execution failed"
    /\ steps = <<"build", "exec">>

====
